---- MODULE Spec2Model ----
(***************************************************************************)
(* Model of the useSupabase hook of src/src/supabase-sdk.js.               *)
(*                                                                         *)
(* A component that calls the hook owns four pieces of React state         *)
(* (supabase, error, loading, isInitialized).  Each run of the effect      *)
(* (mount, or a change of appId / initialize) starts one asynchronous      *)
(* setupClient task.  Tasks of all components share the page URL, the      *)
(* global scope and the app_installations table.                           *)
(***************************************************************************)
EXTENDS Integers, Sequences, FiniteSets

\* ---------------------------------------------------------------- bounds
\* the number of activations (runs of the effect) in a behaviour
MaxTasks == 2

Tasks == 1 .. MaxTasks
\* component instances: at most one per activation
Comps == 1 .. MaxTasks

\* ---------------------------------------------------------------- values
Null == "null"
NoClient == 0

AppIds == {"my-app", "agent-chat"}
Undeclared == "<undeclared>"
\* The identifier appID of line 40 is declared nowhere in the module: it is
\* resolved in the global scope, where it is either unresolvable or has some
\* value.  App ids are interchangeable names, so one value stands for "some
\* value": the hook's appId may equal it or differ from it.
GlobalAppIDValues == {Undeclared, "my-app"}

defaultInitialize == "defaultInitialize"
Initializers == {defaultInitialize, "initializeApp"}

ParamNames == {"supabaseUrl", "supabaseKey", "accessToken", "refreshToken"}
\* URLSearchParams.get gives null for an absent parameter, '' for an empty one
ParamValues == {Null, "", "v"}

MissingParamsError == "Missing required URL parameters"
ReferenceError == "ReferenceError: appID is not defined"
AuthError == "AuthError"
NoRowsCode == "PGRST116"
OtherLookupErrors == {"42501"}
CallbackError == "CallbackError"
UpsertError == "UpsertError"
\* what a caller-supplied initialize can throw or reject with
CallbackThrowables == {CallbackError, Null}

\* a row of app_installations, by the value of its initialized column
NoRow == "absent"
Rows == {NoRow, "false", "true"}

VARIABLES
  search,             \* window.location.search, as parameter name -> value
  globalAppID,        \* what the free identifier appID resolves to
  app_installations,  \* the table: app_id -> row
  initialTable,       \* the table as it was before the first activation
  mounted,            \* component -> BOOLEAN
  appId,              \* component -> current appId option
  initialize,         \* component -> current initialize option
  supabase,           \* component -> hook state
  error,
  loading,
  isInitialized,
  task                \* task -> record of one setupClient run

vars == <<search, globalAppID, app_installations, initialTable, mounted, appId, initialize,
          supabase, error, loading, isInitialized, task>>

env == <<search, globalAppID, initialTable>>
props == <<mounted, appId, initialize>>

IdleTask == [pc |-> "idle", comp |-> 0, appId |-> Null, initialize |-> Null,
             lookupKey |-> Null, installData |-> Null,
             thrown |-> Null, trace |-> <<>>]

Started == {t \in Tasks : task[t].pc # "idle"}
NextTask == Cardinality(Started) + 1

\* a presence check that tests only for null and lets '' through
FalsyNullOnly(x) == x = Null

\* !x for the string-or-null values of URLSearchParams.get
Falsy(x) == x \in {Null, ""}

ParamsMissing == \E p \in ParamNames : Falsy(search[p])

\* the operations a task has invoked so far, in order
HasIn(tr, op) == \E i \in 1 .. Len(tr) : tr[i] = op
Has(t, op) == HasIn(task[t].trace, op)
Count(t, op) == Cardinality({i \in 1 .. Len(task[t].trace) : task[t].trace[i] = op})

\* the page URLs considered: all four parameters given, or one of them absent
\* or empty
Blank == {Null, ""}
SearchInputs ==
  {s \in [ParamNames -> ParamValues] :
     \A p, q \in ParamNames : (s[p] \in Blank /\ s[q] \in Blank) => p = q}

Init ==
  /\ search \in SearchInputs
  /\ globalAppID \in GlobalAppIDValues
  /\ app_installations \in [AppIds -> Rows]
  /\ initialTable = app_installations
  /\ mounted = [c \in Comps |-> FALSE]
  /\ appId = [c \in Comps |-> Null]
  /\ initialize = [c \in Comps |-> Null]
  /\ supabase = [c \in Comps |-> NoClient]
  /\ error = [c \in Comps |-> Null]
  /\ loading = [c \in Comps |-> TRUE]
  /\ isInitialized = [c \in Comps |-> FALSE]
  /\ task = [t \in Tasks |-> IdleTask]

\* catch + finally of setupClient: setError(err); setLoading(false).  The
\* closure's initialize and installData go out of scope with the call.
Catch(t, err) ==
  LET c == task[t].comp IN
  /\ error' = [error EXCEPT ![c] = err]
  /\ loading' = [loading EXCEPT ![c] = FALSE]
  /\ task' = [task EXCEPT ![t].pc = "done", ![t].thrown = err,
                          ![t].initialize = Null, ![t].installData = Null]
  /\ UNCHANGED <<supabase, isInitialized>>

\* a success path guarded by a cancellation flag: a task that a later
\* activation of its component has superseded returns without writing
PublishUnlessStale(t) ==
  LET c == task[t].comp
      stale == \E u \in Tasks : u > t /\ task[u].pc # "idle" /\ task[u].comp = c
  IN
  /\ isInitialized' = [isInitialized EXCEPT ![c] = IF stale THEN @ ELSE TRUE]
  /\ supabase' = [supabase EXCEPT ![c] = IF stale THEN @ ELSE t]
  /\ loading' = [loading EXCEPT ![c] = IF stale THEN @ ELSE FALSE]
  /\ task' = [task EXCEPT ![t].pc = "done",
                          ![t].initialize = Null, ![t].installData = Null,
                          ![t].trace = @ \o <<"publish">>]
  /\ UNCHANGED error

\* setIsInitialized(true); setSupabase(client); finally setLoading(false)
Publish(t) ==
  LET c == task[t].comp IN
  /\ isInitialized' = [isInitialized EXCEPT ![c] = TRUE]
  /\ supabase' = [supabase EXCEPT ![c] = t]
  /\ loading' = [loading EXCEPT ![c] = FALSE]
  /\ task' = [task EXCEPT ![t].pc = "done",
                          ![t].initialize = Null, ![t].installData = Null,
                          ![t].trace = @ \o <<"publish">>]
  /\ UNCHANGED error

\* The effect body: setupClient() runs synchronously up to its first await.
RunEffect(c, a, f) ==
  LET t == NextTask
      fresh == [IdleTask EXCEPT !.comp = c, !.appId = a, !.initialize = f]
  IN
  /\ t \in Tasks
  /\ IF ParamsMissing
       THEN /\ error' = [error EXCEPT ![c] = MissingParamsError]
            /\ loading' = [loading EXCEPT ![c] = FALSE]
            /\ task' = [task EXCEPT ![t] =
                 [fresh EXCEPT !.pc = "done", !.thrown = MissingParamsError,
                               !.initialize = Null,
                               !.trace = <<"validate">>]]
       ELSE /\ task' = [task EXCEPT ![t] =
                 [fresh EXCEPT !.pc = "setSession",
                               !.trace = <<"validate", "createClient", "setSession">>]]
            /\ UNCHANGED <<error, loading>>
  /\ UNCHANGED <<supabase, isInitialized>>

\* first render of a component that calls the hook; the effect runs after it
Mount(c, a, f) ==
  /\ ~mounted[c]
  /\ \A d \in Comps : d < c => mounted[d]   \* components are numbered in mount order
  /\ mounted' = [mounted EXCEPT ![c] = TRUE]
  /\ appId' = [appId EXCEPT ![c] = a]
  /\ initialize' = [initialize EXCEPT ![c] = f]
  /\ RunEffect(c, a, f)
  /\ UNCHANGED <<env, app_installations>>

\* a later render with a changed dependency [appId, initialize]
Rerender(c, a, f) ==
  /\ mounted[c]
  /\ <<a, f>> # <<appId[c], initialize[c]>>
  /\ appId' = [appId EXCEPT ![c] = a]
  /\ initialize' = [initialize EXCEPT ![c] = f]
  /\ RunEffect(c, a, f)
  /\ UNCHANGED <<env, mounted, app_installations>>

\* How client.auth.setSession settles: it resolves with {data, error} ("ok" when
\* error is null, "error" when the session is refused) or rejects ("throw").
SetSessionResults == {"ok", "error", "throw"}

\* await client.auth.setSession(...) settles; its value is discarded.  Then
\* the lookup expression is evaluated, which reads the identifier appID.
SetSessionReturn(t, r) ==
  /\ task[t].pc = "setSession"
  /\ r \in SetSessionResults
  /\ IF r = "throw"
       THEN Catch(t, AuthError)
       ELSE IF globalAppID = Undeclared
         THEN Catch(t, ReferenceError)
         ELSE /\ task' = [task EXCEPT ![t].pc = "lookup",
                                      ![t].lookupKey = globalAppID,
                                      ![t].trace = @ \o <<"lookup">>]
              /\ UNCHANGED <<supabase, error, loading, isInitialized>>
  /\ UNCHANGED <<env, props, app_installations>>

\* .select('initialized').eq('app_id', key).single() against the table
Single(key) ==
  IF app_installations[key] = NoRow
    THEN [data |-> Null, error |-> NoRowsCode]
    ELSE [data |-> app_installations[key], error |-> Null]

LookupFailures == {[data |-> Null, error |-> e] : e \in OtherLookupErrors}

\* every {data, error} the lookup can resolve with
LookupResponses ==
  LookupFailures \cup {[data |-> Null, error |-> NoRowsCode]}
    \cup {[data |-> d, error |-> Null] : d \in Rows \ {NoRow}}

LookupResults(key) ==
  IF key \in AppIds THEN {Single(key)} \cup LookupFailures ELSE {}

\* a gate that takes every lookup result for "already initialized"
AlreadyInitializedAlways(installData) == TRUE

\* installData?.initialized || false
AlreadyInitialized(installData) == installData = "true"

\* a lookup whose error is never rethrown
InstallErrorIgnored(installError) == FALSE

\* installError && installError.code !== 'PGRST116'
InstallErrorThrown(installError) ==
  installError # Null /\ installError # NoRowsCode

\* a gate that marks the record before running the callback: on a row that
\* is not initialized the upsert is issued first
LookupReturnUpsertFirst(t, res) ==
  /\ task[t].pc = "lookup"
  /\ res \in LookupResults(task[t].lookupKey)
  /\ IF InstallErrorThrown(res.error)
       THEN Catch(t, res.error)
       ELSE IF ~AlreadyInitialized(res.data)
         THEN /\ task' = [task EXCEPT ![t].pc = "upsert",
                                      ![t].installData = res.data,
                                      ![t].trace = @ \o <<"upsert">>]
              /\ UNCHANGED <<supabase, error, loading, isInitialized>>
         ELSE Publish(t)
  /\ UNCHANGED <<env, props, app_installations>>

\* the lookup settles: lines 40-49 and 59-64
LookupReturn(t, res) ==
  /\ task[t].pc = "lookup"
  /\ res \in LookupResults(task[t].lookupKey)
  /\ IF InstallErrorThrown(res.error)
       THEN Catch(t, res.error)
       ELSE IF ~AlreadyInitialized(res.data)
         THEN /\ task' = [task EXCEPT ![t].pc = "initialize",
                                      ![t].installData = res.data,
                                      ![t].trace = @ \o <<"initialize">>]
              /\ UNCHANGED <<supabase, error, loading, isInitialized>>
         ELSE Publish(t)
  /\ UNCHANGED <<env, props, app_installations>>

InitializeResults(f) ==
  IF f = defaultInitialize THEN {"ok"} ELSE {"ok"} \cup CallbackThrowables

\* a callback whose failure is swallowed: the upsert is issued regardless
InitializeReturnSwallowed(t, r) ==
  /\ task[t].pc = "initialize"
  /\ r \in InitializeResults(task[t].initialize)
  /\ task' = [task EXCEPT ![t].pc = "upsert", ![t].trace = @ \o <<"upsert">>]
  /\ UNCHANGED <<env, props, app_installations, supabase, error, loading,
                 isInitialized>>

\* await initialize(client) settles: lines 49-54
InitializeReturn(t, r) ==
  /\ task[t].pc = "initialize"
  /\ r \in InitializeResults(task[t].initialize)
  /\ IF r = "ok"
       THEN /\ task' = [task EXCEPT ![t].pc = "upsert",
                                    ![t].trace = @ \o <<"upsert">>]
            /\ UNCHANGED <<supabase, error, loading, isInitialized>>
       ELSE Catch(t, r)
  /\ UNCHANGED <<env, props, app_installations>>

\* an upsert whose returned error is not examined: the activation goes on to
\* publish as if the record had been written
UpsertReturnErrorIgnored(t, r) ==
  /\ task[t].pc = "upsert"
  /\ r \in {"ok", "error"}
  /\ IF r = "ok"
       THEN app_installations' =
              [app_installations EXCEPT ![task[t].appId] = "true"]
       ELSE UNCHANGED app_installations
  /\ Publish(t)
  /\ UNCHANGED <<env, props>>

\* an upsert that leaves a not-initialized row behind when it fails
UpsertReturnWritesFalse(t, r) ==
  /\ task[t].pc = "upsert"
  /\ r \in {"ok", "error"}
  /\ IF r = "ok"
       THEN /\ app_installations' =
                 [app_installations EXCEPT ![task[t].appId] = "true"]
            /\ Publish(t)
       ELSE /\ app_installations' =
                 [app_installations EXCEPT ![task[t].appId] = "false"]
            /\ Catch(t, UpsertError)
  /\ UNCHANGED <<env, props>>

\* the upsert settles: lines 52-58, 64
UpsertReturn(t, r) ==
  /\ task[t].pc = "upsert"
  /\ r \in {"ok", "error"}
  /\ IF r = "ok"
       THEN /\ app_installations' =
                 [app_installations EXCEPT ![task[t].appId] = "true"]
            /\ Publish(t)
       ELSE /\ Catch(t, UpsertError)
            /\ UNCHANGED app_installations
  /\ UNCHANGED <<env, props>>

Next ==
  \/ \E c \in Comps, a \in AppIds, f \in Initializers : Mount(c, a, f)
  \/ \E c \in Comps, a \in AppIds, f \in Initializers : Rerender(c, a, f)
  \/ \E t \in Tasks, r \in SetSessionResults : SetSessionReturn(t, r)
  \/ \E t \in Tasks, res \in LookupResponses : LookupReturn(t, res)
  \/ \E t \in Tasks, r \in {"ok"} \cup CallbackThrowables : InitializeReturn(t, r)
  \/ \E t \in Tasks, r \in {"ok", "error"} : UpsertReturn(t, r)

Spec == Init /\ [][Next]_vars

\* ------------------------------------------------------------ vocabulary
Done(t) == task[t].pc = "done"
Failed(t) == Done(t) /\ ~Has(t, "publish")
\* the task was the only activation of its component
OnlyTask(t) == \A u \in Started : u # t => task[u].comp # task[t].comp
\* one of the task's external calls (session, lookup, callback, upsert) threw
\* or returned an error that the code rethrows
ExternalFailure(t) ==
  Failed(t) /\ task[t].thrown \notin {MissingParamsError, ReferenceError}
SetupThrowables ==
  {MissingParamsError, ReferenceError, AuthError, UpsertError}
    \cup OtherLookupErrors \cup CallbackThrowables

TypeOK ==
  /\ search \in SearchInputs
  /\ globalAppID \in GlobalAppIDValues
  /\ app_installations \in [AppIds -> Rows]
  /\ initialTable \in [AppIds -> Rows]
  /\ mounted \in [Comps -> BOOLEAN]
  /\ supabase \in [Comps -> {NoClient} \cup Tasks]
  /\ error \in [Comps -> SetupThrowables]
  /\ loading \in [Comps -> BOOLEAN]
  /\ isInitialized \in [Comps -> BOOLEAN]
  /\ \A t \in Tasks :
       task[t].pc \in {"idle", "setSession", "lookup", "initialize", "upsert", "done"}

\* ------------------------------------------------------------------ C1
\* C1: when one of the four URL parameters is absent or empty (the other three
\* present), every activation has ended right after validation: it threw the
\* missing-parameters error, which is the hook's error; the hook's client is
\* still null and isInitialized false; and the activation constructed no
\* client, assigned no session and issued no lookup, callback or upsert.
C1_MissingParameterRejected ==
  (\E p \in ParamNames : search[p] \in Blank) =>
    \A t \in Started :
      /\ Done(t)
      /\ task[t].trace = <<"validate">>
      /\ task[t].thrown = MissingParamsError
      /\ error[task[t].comp] = MissingParamsError
      /\ supabase[task[t].comp] = NoClient
      /\ ~isInitialized[task[t].comp]
      /\ ~loading[task[t].comp]

C1_Witness ==
  /\ search["refreshToken"] = ""
  /\ \A p \in ParamNames \ {"refreshToken"} : search[p] = "v"
  /\ \E t \in Started : Done(t) /\ error[task[t].comp] = MissingParamsError

\* ------------------------------------------------------------------ C2
\* C2: an activation with all four parameters valid, no failing external call
\* and the record of its appId flagged initialized from the start ends without
\* invoking the callback or the upsert, with isInitialized true, error null
\* and a client published.  (Stated of the only activation of a component.)
C2_InitializedRecordSkipsCallback ==
  \A t \in Started :
    ( /\ Done(t) /\ OnlyTask(t)
      /\ ~ParamsMissing /\ ~ExternalFailure(t)
      /\ initialTable[task[t].appId] = "true" )
    => /\ ~Has(t, "initialize")
       /\ ~Has(t, "upsert")
       /\ isInitialized[task[t].comp]
       /\ error[task[t].comp] = Null
       /\ supabase[task[t].comp] # NoClient

\* ------------------------------------------------------------------ C3
\* C3: a single activation with all four parameters valid, no failing external
\* call and no record (or a not-initialized record) for its appId invokes the
\* callback exactly once, leaves the record of its appId initialized and ends
\* with isInitialized true.
C3_FirstRunInitializesOnce ==
  \A t \in Started :
    ( /\ Done(t) /\ Started = {t}
      /\ ~ParamsMissing /\ ~ExternalFailure(t)
      /\ initialTable[task[t].appId] \in {NoRow, "false"} )
    => /\ Count(t, "initialize") = 1
       /\ app_installations[task[t].appId] = "true"
       /\ isInitialized[task[t].comp]

\* ------------------------------------------------------------------ C4
C4_CallbackFailureStep(t, r) ==
  LET c == task[t].comp IN
  /\ app_installations' = app_installations
  /\ task'[t].pc = "done"
  /\ ~HasIn(task'[t].trace, "upsert")
  /\ error'[c] = r
  /\ isInitialized'[c] = isInitialized[c]
  /\ supabase'[c] = supabase[c]
  /\ OnlyTask(t) => ~isInitialized'[c] /\ supabase'[c] = NoClient

C5_LookupFailureStep(t, res) ==
  /\ task'[t].pc = "done"
  /\ error'[task[t].comp] = res.error
  /\ ~HasIn(task'[t].trace, "initialize")
  /\ ~HasIn(task'[t].trace, "upsert")
  /\ app_installations' = app_installations

\* C5: the step in which the lookup answers with an error other than PGRST116
\* ends the activation with that error in the hook's error field, and the
\* activation has invoked neither the callback nor the upsert; the table is
\* unchanged.
C5_LookupFailureSurfaced ==
  [][\A t \in Tasks, res \in LookupFailures :
       LookupReturn(t, res) => C5_LookupFailureStep(t, res)]_vars

C5_Witness ==
  \E t \in Started :
    /\ Failed(t) /\ Has(t, "lookup")
    /\ task[t].thrown \in OtherLookupErrors
    /\ error[task[t].comp] = task[t].thrown
    /\ ~Has(t, "initialize")

\* ------------------------------------------------------------------ C6
\* C6: in every activation the step that ends it takes loading from true to
\* false.
C6_LoadingFlipsPerActivation ==
  [][\A t \in Tasks :
       (task[t].pc # "done" /\ task'[t].pc = "done")
         => loading[task'[t].comp] /\ ~loading'[task'[t].comp]]_vars

\* ------------------------------------------------------------------ C7
\* C7: for every appId, at most one activation in total has invoked the
\* initialize callback.
C7_CallbackAtMostOncePerApp ==
  \A a \in AppIds :
    Cardinality({t \in Started : task[t].appId = a /\ Has(t, "initialize")}) <= 1

\* ------------------------------------------------------------------ C8
C8_SessionFailureStep(t) ==
  LET c == task[t].comp IN
  /\ task'[t].pc = "done"
  /\ error'[c] # Null
  /\ supabase'[c] = supabase[c]
  /\ ~HasIn(task'[t].trace, "lookup")
  /\ ~HasIn(task'[t].trace, "initialize")

\* C8: the step in which session assignment fails (setSession rejects, or
\* resolves with an error) ends the activation: the error field is non-null,
\* no client is published by it and it goes on to no lookup or callback.
C8_SessionFailurePropagated ==
  [][\A t \in Tasks, r \in {"error", "throw"} :
       SetSessionReturn(t, r) => C8_SessionFailureStep(t)]_vars

\* ------------------------------------------------------------------ C9
\* C9: whenever the hook reports loading = false and error = null, it reports a
\* client and isInitialized = true.
C9_ReadyOrError ==
  \A c \in Comps :
    (mounted[c] /\ ~loading[c] /\ error[c] = Null)
      => supabase[c] # NoClient /\ isInitialized[c]

\* ----------------------------------------------------------------- C10
C10_ToCallback(t) ==
  LookupReturn(t, Single(task[t].lookupKey)) /\ task'[t].pc = "initialize"

\* C10: nothing but the row read by the lookup gates the callback: whatever the
\* other activations are doing, a lookup in flight on a row that is absent or
\* not initialized can be answered so that its activation invokes the callback.
\* So two activations of one appId can both be past the lookup, callback
\* invoked, with no upsert landed.
C10_CheckThenActNotAtomic ==
  \A t \in Started :
    (task[t].pc = "lookup" /\ app_installations[task[t].lookupKey] # "true")
      => ENABLED C10_ToCallback(t)

C10_Witness ==
  \E t, u \in Started :
    /\ t # u
    /\ task[t].appId = task[u].appId
    /\ task[t].pc \in {"initialize", "upsert"}
    /\ task[u].pc \in {"initialize", "upsert"}
    /\ ~AlreadyInitialized(task[t].installData)
    /\ ~AlreadyInitialized(task[u].installData)
    /\ app_installations[task[t].appId] # "true"

\* ----------------------------------------------------------------- C11
\* C11: a re-activation (a render with a changed appId or initialize, all four
\* URL parameters present) starts from the initial values of the four fields:
\* client null, error null, loading true, isInitialized false.
C11_FieldsResetOnReactivation ==
  [][\A c \in Comps, a \in AppIds, f \in Initializers :
       (Rerender(c, a, f) /\ ~ParamsMissing)
         => /\ supabase'[c] = NoClient
            /\ error'[c] = Null
            /\ loading'[c]
            /\ ~isInitialized'[c]]_vars

\* ----------------------------------------------------------------- C12
\* an earlier activation of the component of u, superseded by u
Stale(t, u) == t < u /\ task[t].pc # "idle" /\ task[u].pc # "idle"
               /\ task[t].comp = task[u].comp

\* C12: no activation is cancelled by a later one.  Every task that has run to
\* its success path, superseded or not, has written the hook's fields: its
\* component reports isInitialized = true, a client and loading = false; and
\* every finished task has set loading = false.  So the hook can report a
\* client, isInitialized and loading = false on behalf of a stale activation
\* while the current activation is still in flight.
C12_StaleTaskStillWrites ==
  \A t \in Started :
    Done(t) =>
      /\ ~loading[task[t].comp]
      /\ Has(t, "publish") =>
           /\ isInitialized[task[t].comp]
           /\ supabase[task[t].comp] # NoClient
           /\ (\A u \in Started : (u # t /\ task[u].comp = task[t].comp) => ~Has(u, "publish"))
                => supabase[task[t].comp] = t

C12_Witness ==
  \E t, u \in Started :
    /\ Stale(t, u)
    /\ task[u].pc \in {"setSession", "lookup", "initialize", "upsert"}
    /\ Done(t) /\ Has(t, "publish")
    /\ supabase[task[u].comp] = t
    /\ isInitialized[task[u].comp]
    /\ ~loading[task[u].comp]

\* ----------------------------------------------------------------- C13
\* the order of the steps of setupClient when the callback runs, and when the
\* record is found initialized
FullOrder == <<"validate", "createClient", "setSession", "lookup",
               "initialize", "upsert", "publish">>
SkipOrder == <<"validate", "createClient", "setSession", "lookup", "publish">>
IsPrefix(tr, full) ==
  Len(tr) <= Len(full) /\ \A i \in 1 .. Len(tr) : tr[i] = full[i]

\* C13: the operations an activation has invoked are, in order, an initial
\* part of validation, client construction, session assignment, lookup,
\* callback, upsert, publication (or of the same without callback and upsert
\* when the record is found initialized); a task waiting for the callback has
\* issued no upsert, and a task whose upsert is in flight has published
\* nothing.
C13_StepsInOrder ==
  \A t \in Started :
    /\ IsPrefix(task[t].trace, FullOrder) \/ IsPrefix(task[t].trace, SkipOrder)
    /\ task[t].pc = "initialize" => task[t].trace = SubSeq(FullOrder, 1, 5)
    /\ task[t].pc = "upsert" => task[t].trace = SubSeq(FullOrder, 1, 6)
    /\ task[t].pc = "lookup" => task[t].trace = SubSeq(FullOrder, 1, 4)
    /\ task[t].pc = "setSession" => task[t].trace = SubSeq(FullOrder, 1, 3)

C13_Witness ==
  \E t \in Started : Done(t) /\ task[t].trace = FullOrder

\* ----------------------------------------------------------------- C14
C14_UpsertFailureStep(t) ==
  LET c == task[t].comp IN
  /\ Has(t, "initialize")
  /\ app_installations' = app_installations
  /\ task'[t].pc = "done"
  /\ task'[t].thrown = UpsertError
  /\ ~HasIn(task'[t].trace, "publish")
  /\ error'[c] = UpsertError
  /\ isInitialized'[c] = isInitialized[c]
  /\ supabase'[c] = supabase[c]
  /\ OnlyTask(t) => ~isInitialized'[c] /\ supabase'[c] = NoClient

ExternalOps == {"setSession", "lookup", "initialize", "upsert"}

\* the step of task t is the settling of one of its external calls with a
\* failure: a rejected or refused session assignment, a lookup error other
\* than "no rows", a callback that throws, an upsert error
C15_FailingStep(t) ==
  \/ \E r \in {"error", "throw"} : SetSessionReturn(t, r)
  \/ \E res \in LookupFailures : LookupReturn(t, res)
  \/ \E r \in CallbackThrowables : InitializeReturn(t, r)
  \/ UpsertReturn(t, "error")

\* C15: an activation invokes each external operation at most once, and the
\* step in which one of them fails ends the activation, invoking no further
\* operation and putting the one failure in the hook's error field.
C15_NoRetryStopAtFirstFailure ==
  [][\A t \in Tasks :
       /\ \A op \in ExternalOps : Count(t, op) <= 1
       /\ C15_FailingStep(t) =>
            /\ task'[t].pc = "done"
            /\ task'[t].trace = task[t].trace
            /\ error'[task[t].comp] = task'[t].thrown]_vars

\* ----------------------------------------------------------------- C16
\* C16: the key of the lookup an activation issues is the appId the hook was
\* given, the key its upsert writes.
C16_LookupKeyIsAppId ==
  \A t \in Started : Has(t, "lookup") => task[t].lookupKey = task[t].appId

\* ----------------------------------------------------------------- C17
\* the step is the successful settling of the upsert of an activation for
\* appId a that had invoked the callback
C17_UpsertAfterCallback(a) ==
  \E t \in Tasks :
    /\ task[t].pc = "upsert" /\ task[t].appId = a
    /\ Has(t, "initialize")
    /\ UpsertReturn(t, "ok")

\* C17: in every step a row that is initialized stays initialized; a row that
\* changes becomes initialized, and does so in the successful upsert of an
\* activation for that appId that had invoked the callback; a step that ends
\* an activation without publishing, or that publishes without a callback,
\* leaves the table as it was.
C17_RecordMonotonic ==
  [][/\ \A a \in AppIds :
          /\ app_installations[a] = "true" => app_installations'[a] = "true"
          /\ app_installations'[a] # app_installations[a]
               => /\ app_installations'[a] = "true"
                  /\ C17_UpsertAfterCallback(a)
     /\ \A t \in Tasks :
          ( /\ task[t].pc # "done" /\ task'[t].pc = "done"
            /\ \/ ~HasIn(task'[t].trace, "publish")
               \/ ~HasIn(task'[t].trace, "initialize") )
          => app_installations' = app_installations]_vars

C17_Witness ==
  \E a \in AppIds, t \in Started :
    /\ initialTable[a] # "true" /\ app_installations[a] = "true"
    /\ task[t].appId = a /\ Done(t) /\ Has(t, "upsert") /\ Has(t, "publish")
    /\ \E u \in Started : u # t /\ Failed(u)

====
